---- MODULE Spec2Model ----
(***************************************************************************)
(* Singly-linked list variants of lean_rust:                               *)
(*   first  - linked_list_take2/src/first.rs   (ExclusiveList, i32)        *)
(*   second - linked_list_take2/src/second.rs  (GenericBorrowList<T>)      *)
(*   third  - linked_list_take2/src/third.rs   (PersistentSharedList<T>)   *)
(* Nodes live in explicit heaps; a Box or Rc is the id of a heap cell.     *)
(***************************************************************************)
EXTENDS Integers, Sequences, FiniteSets, Bags, TLC

\* ------------------------------------------------------------------ bounds
MaxNodes == 3          \* cells per heap, hence the longest list
MaxVal == 3            \* element values are 1..MaxVal
MaxOps == 6            \* calls recorded by the push/pop harness
MaxLists == 3          \* persistent List values alive at once

Val == 1..MaxVal
NodeIds == 1..MaxNodes

\* ------------------------------------------------------- Option and Box
\* Option<T>: None is the empty tuple, Some(x) the one-element tuple.
None == <<>>
Some(x) == <<x>>

\* first.rs spells its link as a hand-rolled enum.
Empty == <<>>
More(n) == <<n>>

\* A heap cell that holds no node.
FreeCell == [elem |-> 0, next |-> None, alloc |-> FALSE]
EmptyHeap == [n \in NodeIds |-> FreeCell]

FreeIds(heap) == {n \in DOMAIN heap : ~heap[n].alloc}
HasFree(heap) == FreeIds(heap) # {}
MinOf(S) == CHOOSE x \in S : \A y \in S : x <= y

\* Box::new(Node { elem, next }): the node moves into a fresh cell.
Box_new(heap, elem, next) ==
  LET p == MinOf(FreeIds(heap))
  IN [heap |-> [heap EXCEPT ![p] = [elem |-> elem, next |-> next, alloc |-> TRUE]],
      ptr |-> p]

\* A Box going out of scope after its fields were moved out.
Box_free(heap, p) == [heap EXCEPT ![p] = FreeCell]

\* The elements met by following links from `link`, front to back.  `fuel`
\* bounds the walk so that it is defined on any heap.
RECURSIVE ElemsFrom(_, _, _)
ElemsFrom(heap, link, fuel) ==
  IF link = None \/ fuel = 0 THEN <<>>
  ELSE <<heap[link[1]].elem>> \o ElemsFrom(heap, heap[link[1]].next, fuel - 1)

Contents(list) == ElemsFrom(list.heap, list.head, Cardinality(DOMAIN list.heap) + 1)

\* ------------------------------------------------- first.rs: ExclusiveList
first_new == [head |-> Empty, heap |-> EmptyHeap]

\* As push, with the old head dropped instead of linked behind the new node.
first_push_nolink(self, elem) ==
  LET b == Box_new(self.heap, elem, Empty)
  IN [head |-> More(b.ptr), heap |-> b.heap]

\* As push, without the store of the new node into self.head.
first_push_nohead(self, elem) ==
  LET b == Box_new(self.heap, elem, self.head)
  IN [head |-> Empty, heap |-> b.heap]

first_push(self, elem) ==
  LET old == self.head                       \* mem::replace yields the old head
      s1 == [self EXCEPT !.head = Empty]     \* and leaves Empty behind
      b == Box_new(s1.heap, elem, old)
  IN [head |-> More(b.ptr), heap |-> b.heap]

\* As pop, with the node left where it was: the element is read, not removed.
first_pop_keepnode(self) ==
  IF self.head = Empty THEN [self |-> self, ret |-> None]
  ELSE [self |-> self, ret |-> Some(self.heap[self.head[1]].elem)]

first_pop(self) ==
  LET old == self.head
      s1 == [self EXCEPT !.head = Empty]
  IN IF old = Empty
     THEN [self |-> s1, ret |-> None]
     ELSE LET node == s1.heap[old[1]]
          IN [self |-> [head |-> node.next, heap |-> Box_free(s1.heap, old[1])],
              ret |-> Some(node.elem)]

\* Drop glue of Box<Node> of first.rs, as Box_drop below with Link for Option.
RECURSIVE first_Box_drop(_, _, _)
first_Box_drop(heap, p, depth) ==
  LET nxt == heap[p].next
      inner == IF nxt = Empty THEN [heap |-> heap, log |-> <<>>]
               ELSE first_Box_drop(heap, nxt[1], depth + 1)
  IN [heap |-> Box_free(inner.heap, p),
      log |-> Append(inner.log, [node |-> p, depth |-> depth, next |-> nxt])]

\* while let Link::More(mut boxed_node) = cur_link
\*   { cur_link = mem::replace(&mut boxed_node.next, Link::Empty); }
RECURSIVE first_drop_loop(_, _)
first_drop_loop(heap, cur_link) ==
  IF cur_link = Empty THEN [heap |-> heap, log |-> <<>>]
  ELSE LET p == cur_link[1]
           nxt == heap[p].next
           h1 == [heap EXCEPT ![p].next = Empty]
           d == first_Box_drop(h1, p, 1)
           rest == first_drop_loop(d.heap, nxt)
       IN [heap |-> rest.heap, log |-> d.log \o rest.log]

first_drop(self) ==
  LET cur_link == self.head                    \* mem::replace(&mut self.head, Link::Empty)
      r == first_drop_loop(self.heap, cur_link)
  IN [head |-> Empty, heap |-> r.heap, log |-> r.log]

\* ------------------------------------------- second.rs: GenericBorrowList
\* Option::take: yields the slot's content and leaves None in the slot.
take(slot) == [val |-> slot, slot |-> None]

second_new == [head |-> None, heap |-> EmptyHeap]

\* As push, with self.head read for the new node's link but left in place, and
\* the new node not stored.
second_push_nostore(self, elem) ==
  LET b == Box_new(self.heap, elem, self.head)
  IN [head |-> self.head, heap |-> b.heap]

second_push(self, elem) ==
  LET t == take(self.head)
      b == Box_new(self.heap, elem, t.val)
  IN [head |-> Some(b.ptr), heap |-> b.heap]

\* As pop, reading the front node without unlinking it.
second_pop_keephead(self) ==
  IF self.head = None THEN [self |-> self, ret |-> None]
  ELSE [self |-> self, ret |-> Some(self.heap[self.head[1]].elem)]

second_pop(self) ==
  LET t == take(self.head)
  IN IF t.val = None
     THEN [self |-> [self EXCEPT !.head = t.slot], ret |-> None]
     ELSE LET node == self.heap[t.val[1]]
          IN [self |-> [head |-> node.next, heap |-> Box_free(self.heap, t.val[1])],
              ret |-> Some(node.elem)]


\* peek: self.head.as_ref().map(|node| &node.elem).  The view is the id of
\* the node whose elem it borrows.
second_peek(self) ==
  IF self.head = None THEN None ELSE Some(self.head[1])

\* peek_mut: self.head.as_mut().map(|node| &mut node.elem).
\* As peek_mut, with self.head.take() for self.head.as_mut().
second_peek_mut_take(self) ==
  [self |-> [self EXCEPT !.head = None],
   ret |-> IF self.head = None THEN None ELSE Some(self.head[1])]

second_peek_mut(self) ==
  [self |-> self,
   ret |-> IF self.head = None THEN None ELSE Some(self.head[1])]

\* Reading and writing through a view of a node's elem (*value, *value = v).
deref(self, view) == self.heap[view].elem

\* As deref_write, for a closure |&mut value| that binds a copy of the element.
deref_write_copy(self, view, v) == self

deref_write(self, view, v) == [self EXCEPT !.heap[view].elem = v]

\* Drop glue of Box<Node<T>>, run at nesting depth `depth`: drops the node's
\* fields, its next link included (one level deeper), and then frees the
\* cell. The log lists the cells in the order they are freed, each with the
\* depth of its drop glue and the next link the node held at that moment.
RECURSIVE Box_drop(_, _, _)
Box_drop(heap, p, depth) ==
  LET nxt == heap[p].next
      inner == IF nxt = None THEN [heap |-> heap, log |-> <<>>]
               ELSE Box_drop(heap, nxt[1], depth + 1)
  IN [heap |-> Box_free(inner.heap, p),
      log |-> Append(inner.log, [node |-> p, depth |-> depth, next |-> nxt])]

\* As the loop below, with the next link read and left in the node.
RECURSIVE second_drop_loop_notake(_, _)
second_drop_loop_notake(heap, cur_link) ==
  IF cur_link = None THEN [heap |-> heap, log |-> <<>>]
  ELSE LET p == cur_link[1]
           d == Box_drop(heap, p, 1)
           rest == second_drop_loop_notake(d.heap, heap[p].next)
       IN [heap |-> rest.heap, log |-> d.log \o rest.log]

\* The while-let loop of Drop for List<T>.
RECURSIVE second_drop_loop(_, _)
second_drop_loop(heap, cur_link) ==
  IF cur_link = None THEN [heap |-> heap, log |-> <<>>]
  ELSE LET p == cur_link[1]
           t == take(heap[p].next)                 \* boxed_node.next.take()
           h1 == [heap EXCEPT ![p].next = t.slot]
           d == Box_drop(h1, p, 1)                 \* boxed_node goes out of scope
           rest == second_drop_loop(d.heap, t.val)
       IN [heap |-> rest.heap, log |-> d.log \o rest.log]

second_drop(self) ==
  LET t == take(self.head)
      r == second_drop_loop(self.heap, t.val)
  IN [head |-> t.slot, heap |-> r.heap, log |-> r.log]

\* IntoIter<T>(List<T>): the list moves into the iterator; next() pops it.
second_into_iter(self) == [list |-> self]

\* As next, reading the front element without popping it.
IntoIter_next_peek(it) ==
  [self |-> it,
   ret |-> IF it.list.head = None THEN None ELSE Some(it.list.heap[it.list.head[1]].elem)]

IntoIter_next(it) ==
  LET r == second_pop(it.list)
  IN [self |-> [it EXCEPT !.list = r.self], ret |-> r.ret]

\* As iter, starting behind the first node.
second_iter_behind(self) ==
  [next |-> IF self.head = None THEN None ELSE self.heap[self.head[1]].next]

\* Iter { next: self.head.as_deref() }
second_iter(self) == [next |-> self.head]

\* As next, without the step to node.next.
Iter_next_stuck(heap, it) ==
  [self |-> it, ret |-> it.next]

\* As next, with no step past the last node.
Iter_next_hold_last(heap, it) ==
  IF it.next = None THEN [self |-> it, ret |-> None]
  ELSE [self |-> IF heap[it.next[1]].next = None THEN it
                 ELSE [it EXCEPT !.next = heap[it.next[1]].next],
        ret |-> Some(it.next[1])]

\* self.next.map(|node| { self.next = node.next.as_deref(); &node.elem })
Iter_next(heap, it) ==
  IF it.next = None THEN [self |-> it, ret |-> None]
  ELSE [self |-> [it EXCEPT !.next = heap[it.next[1]].next], ret |-> Some(it.next[1])]

\* IterMut { next: self.head.as_deref_mut() }
second_iter_mut(self) == [next |-> self.head]

\* As next, without the step to node.next.
IterMut_next_stuck(heap, it) ==
  [self |-> it, heap |-> heap, ret |-> it.next]

\* self.next.take().map(|node| { self.next = node.next.as_deref_mut(); &mut node.elem })
IterMut_next(heap, it) ==
  LET t == take(it.next)
  IN IF t.val = None
     THEN [self |-> [it EXCEPT !.next = t.slot], heap |-> heap, ret |-> None]
     ELSE [self |-> [it EXCEPT !.next = heap[t.val[1]].next], heap |-> heap,
           ret |-> Some(t.val[1])]

\* The heap after an IterMut has been run until it returns None.
RECURSIVE IterMut_run(_, _, _)
IterMut_run(heap, it, fuel) ==
  LET r == IterMut_next(heap, it)
  IN IF r.ret = None \/ fuel = 0 THEN r.heap
     ELSE IterMut_run(r.heap, r.self, fuel - 1)

\* The results of popping a list until it signals empty.
RECURSIVE PopAll(_, _)
PopAll(self, fuel) ==
  LET r == second_pop(self)
  IN IF r.ret = None \/ fuel = 0 THEN <<>>
     ELSE r.ret \o PopAll(r.self, fuel - 1)


\* ------------------------------------------ third.rs: PersistentSharedList
\* An Rc<Node<T>> is the id of a cell that also holds the strong count.
FreeRc == [elem |-> 0, next |-> None, strong |-> 0, alloc |-> FALSE]
EmptyRcHeap == [n \in NodeIds |-> FreeRc]

\* Rc::new(Node { elem, next })
Rc_new(heap, elem, next) ==
  LET p == MinOf(FreeIds(heap))
  IN [heap |-> [heap EXCEPT ![p] = [elem |-> elem, next |-> next, strong |-> 1, alloc |-> TRUE]],
      ptr |-> p]

\* As clone, with the handle copied and the share not counted.
Rc_clone_uncounted(heap, link) == heap

\* Option<Rc<_>>::clone: one more share of the node, if there is a node.
Rc_clone(heap, link) ==
  IF link = None THEN heap ELSE [heap EXCEPT ![link[1]].strong = @ + 1]

\* Rc::try_unwrap: with exactly one share the node moves out and the cell is
\* released; otherwise the Rc comes back untouched in Err.
Rc_try_unwrap(heap, p) ==
  IF heap[p].strong = 1
  THEN [ok |-> TRUE, heap |-> [heap EXCEPT ![p] = FreeRc],
        node |-> [elem |-> heap[p].elem, next |-> heap[p].next]]
  ELSE [ok |-> FALSE, heap |-> heap, node |-> [elem |-> 0, next |-> None]]

\* Drop of an Rc: one share less; the last share drops the node, and with it
\* the node's own next link, and releases the cell.
RECURSIVE Rc_drop(_, _)
Rc_drop(heap, p) ==
  IF heap[p].strong > 1 THEN [heap EXCEPT ![p].strong = @ - 1]
  ELSE LET nxt == heap[p].next
           h1 == [heap EXCEPT ![p] = FreeRc]
       IN IF nxt = None THEN h1 ELSE Rc_drop(h1, nxt[1])

third_new == [head |-> None]

\* As prepend, with next: None for next: self.head.clone().
third_prepend_nolink(heap, self, elem) ==
  LET b == Rc_new(heap, elem, None)
  IN [heap |-> b.heap, ret |-> [head |-> Some(b.ptr)]]

third_prepend(heap, self, elem) ==
  LET h1 == Rc_clone(heap, self.head)            \* next: self.head.clone()
      b == Rc_new(h1, elem, self.head)
  IN [heap |-> b.heap, ret |-> [head |-> Some(b.ptr)]]

\* As tail, with node.next.take() for node.next.clone().
third_tail_take(heap, self) ==
  IF self.head = None THEN [heap |-> heap, ret |-> [head |-> None]]
  ELSE [heap |-> [heap EXCEPT ![self.head[1]].next = None],
        ret |-> [head |-> heap[self.head[1]].next]]

\* As tail, with self.head.clone() for node.next.clone().
third_tail_same(heap, self) ==
  [heap |-> Rc_clone(heap, self.head), ret |-> [head |-> self.head]]

\* self.head.as_ref().and_then(|node| node.next.clone())
third_tail(heap, self) ==
  IF self.head = None THEN [heap |-> heap, ret |-> [head |-> None]]
  ELSE LET nxt == heap[self.head[1]].next
       IN [heap |-> Rc_clone(heap, nxt), ret |-> [head |-> nxt]]

\* self.head.as_ref().map(|node| &node.elem)
third_head(self) ==
  IF self.head = None THEN None ELSE Some(self.head[1])

\* As the loop below, with the Rc that try_unwrap hands back in Err forgotten
\* (mem::forget) instead of dropped.
RECURSIVE third_drop_loop_forget(_, _)
third_drop_loop_forget(heap, head) ==
  IF head = None THEN heap
  ELSE LET u == Rc_try_unwrap(heap, head[1])
       IN IF u.ok THEN third_drop_loop_forget(u.heap, u.node.next)
          ELSE u.heap

\* As the loop below, without a look at the share count.
RECURSIVE third_drop_loop_all(_, _)
third_drop_loop_all(heap, head) ==
  IF head = None THEN heap
  ELSE third_drop_loop_all([heap EXCEPT ![head[1]] = FreeRc], heap[head[1]].next)

\* As the loop below, without the break.
RECURSIVE third_drop_loop_nobreak(_, _)
third_drop_loop_nobreak(heap, head) ==
  IF head = None THEN heap
  ELSE LET u == Rc_try_unwrap(heap, head[1])
       IN IF u.ok THEN third_drop_loop_nobreak(u.heap, u.node.next)
          ELSE third_drop_loop_nobreak([heap EXCEPT ![head[1]].strong = @ - 1],
                                       heap[head[1]].next)

\* while let Some(node) = head { if let Ok(mut node) = Rc::try_unwrap(node)
\* { head = node.next.take(); } else { break; } }
RECURSIVE third_drop_loop(_, _)
third_drop_loop(heap, head) ==
  IF head = None THEN heap
  ELSE LET u == Rc_try_unwrap(heap, head[1])
       IN IF u.ok
          THEN third_drop_loop(u.heap, u.node.next)   \* the node goes with next = None
          ELSE Rc_drop(u.heap, head[1])               \* the Rc in Err is dropped

\* As drop, for a List wrapped so that no destructor runs (mem::forget).
third_drop_forgotten(heap, self) == heap

third_drop(heap, self) ==
  LET t == take(self.head)
  IN third_drop_loop(heap, t.val)

\* Iter { next: self.head.as_deref() } and its next().
third_iter(self) == [next |-> self.head]

\* As next, with a share of the following node taken (node.next.clone()) to
\* step to it.
third_Iter_next_clone(heap, it) ==
  IF it.next = None THEN [self |-> it, heap |-> heap, ret |-> None]
  ELSE [self |-> [it EXCEPT !.next = heap[it.next[1]].next],
        heap |-> Rc_clone(heap, heap[it.next[1]].next), ret |-> Some(it.next[1])]

\* self.next.map(|node| { self.next = node.next.as_deref(); &node.elem }):
\* as_deref borrows the node behind the Rc, no share is taken.
third_Iter_next(heap, it) ==
  IF it.next = None THEN [self |-> it, heap |-> heap, ret |-> None]
  ELSE [self |-> [it EXCEPT !.next = heap[it.next[1]].next],
        heap |-> heap, ret |-> Some(it.next[1])]

\* ------------------------------------------------------------------ state
VARIABLES
  first,     \* the ExclusiveList under test
  second,    \* the GenericBorrowList under test
  hist,      \* push/pop harness: the calls made since new(), with results
  shadow,    \* borrow harness: the abstract stack the calls so far describe
  call,      \* borrow harness: the most recent call and what it returned
  prev,      \* borrow harness: the call before that one
  borrow,    \* the live &mut T view handed out by peek_mut, if any
  into_iter, \* the live IntoIter, if any
  iters,     \* the live Iter values
  iter_mut,  \* the live IterMut, if any
  rc_heap,   \* the cells of the PersistentSharedList nodes
  lists      \* the bag of persistent List values alive

vars == <<first, second, hist, shadow, call, prev, borrow, into_iter, iters, iter_mut,
         rc_heap, lists>>
thirdVars == <<rc_heap, lists>>
borrowVars == <<shadow, call, prev, borrow, into_iter, iters, iter_mut>>

IterIds == {1, 2}
\* What the harness variable `list` holds once the list has been moved out.
Moved == [moved |-> TRUE]
NoIters == [i \in IterIds |-> None]

Init ==
  /\ first = first_new
  /\ second = second_new
  /\ hist = <<>>
  /\ shadow = <<>>
  /\ call = [op |-> "new", arg |-> None, ret |-> None]
  /\ prev = [op |-> "new", arg |-> None, ret |-> None]
  /\ borrow = None
  /\ into_iter = None
  /\ iters = NoIters
  /\ iter_mut = None
  /\ rc_heap = EmptyRcHeap
  /\ lists = EmptyBag

\* ------------------------------------------ push/pop harness (test::basic)
\* The same call is made on both lists, as the two test::basic functions do.
Push(e) ==
  /\ Len(hist) < MaxOps
  /\ HasFree(first.heap) /\ HasFree(second.heap)
  /\ first' = first_push(first, e)
  /\ second' = second_push(second, e)
  /\ hist' = Append(hist, [op |-> "push", arg |-> Some(e), first |-> None, second |-> None])
  /\ UNCHANGED <<borrowVars, thirdVars>>

Pop ==
  /\ Len(hist) < MaxOps
  /\ first' = first_pop(first).self
  /\ second' = second_pop(second).self
  /\ hist' = Append(hist, [op |-> "pop", arg |-> None,
                           first |-> first_pop(first).ret,
                           second |-> second_pop(second).ret])
  /\ UNCHANGED <<borrowVars, thirdVars>>

\* The end of test::basic: both lists go out of scope and Drop::drop runs on
\* them; the next test starts from List::new(). The harness keeps how many
\* cells each teardown released.
DropLists ==
  /\ LET d == first_drop(first)
     IN first' = [head |-> d.head, heap |-> d.heap]
  /\ LET d == second_drop(second)
     IN second' = [head |-> d.head, heap |-> d.heap]
  /\ hist' = <<>>
  /\ call' = [op |-> "drop", arg |-> Some(Len(first_drop(first).log)),
              ret |-> Some(Len(second_drop(second).log))]
  /\ UNCHANGED <<shadow, prev, borrow, into_iter, iters, iter_mut, thirdVars>>

\* peek() and peek_mut() on the GenericBorrowList, nothing written through
\* the view; the ExclusiveList has neither.
LookAtFront ==
  /\ second_peek(second) = second_peek_mut(second).ret
  /\ second' = second_peek_mut(second).self
  /\ UNCHANGED <<first, hist, borrowVars, thirdVars>>

\* iter() and iter_mut() on the GenericBorrowList, each run until None,
\* nothing written through the views.
WalkList ==
  /\ second' = [second EXCEPT
                  !.heap = IterMut_run(second.heap, second_iter_mut(second), MaxNodes + 1)]
  /\ UNCHANGED <<first, hist, borrowVars, thirdVars>>

NextStack == (\E e \in Val : Push(e)) \/ Pop \/ DropLists \/ LookAtFront \/ WalkList

SpecStack == Init /\ [][NextStack]_vars


\* ------------------- borrow harness (test::peek, into_iter, iter, iter_mut)
\* Calls on the GenericBorrowList alone, in every order the borrow checker
\* accepts: a call that takes &mut self or self ends the views handed out
\* before it, a call that takes &self ends the mutable ones.
Live == second # Moved
Call(op, arg, ret) == [op |-> op, arg |-> arg, ret |-> ret]
Seen(self, view) == IF view = None THEN None ELSE Some(deref(self, view[1]))
\* The harness stops calling next() once it has seen None twice.
Done2(out) == Len(out) >= 2 /\ out[Len(out)] = None /\ out[Len(out) - 1] = None

\* list = List::new(): the previous list, or the iterator that holds it, is
\* dropped.
NewList ==
  /\ second' = [second_new EXCEPT
                  !.heap = second_drop(IF Live THEN second ELSE into_iter[1].it.list).heap]
  /\ shadow' = <<>>
  /\ call' = Call("new", None, None)
  /\ prev' = call
  /\ borrow' = None /\ into_iter' = None /\ iters' = NoIters /\ iter_mut' = None
  /\ UNCHANGED <<thirdVars, first, hist>>

ListPush(e) ==
  /\ Live /\ HasFree(second.heap)
  /\ second' = second_push(second, e)
  /\ shadow' = <<e>> \o shadow
  /\ call' = Call("push", Some(e), None)
  /\ prev' = call
  /\ borrow' = None /\ iters' = NoIters /\ iter_mut' = None
  /\ UNCHANGED <<thirdVars, first, hist, into_iter>>

ListPop ==
  /\ Live
  /\ second' = second_pop(second).self
  /\ shadow' = IF shadow = <<>> THEN <<>> ELSE Tail(shadow)
  /\ call' = Call("pop", None, second_pop(second).ret)
  /\ prev' = call
  /\ borrow' = None /\ iters' = NoIters /\ iter_mut' = None
  /\ UNCHANGED <<thirdVars, first, hist, into_iter>>

Peek ==
  /\ Live
  /\ call' = Call("peek", None, Seen(second, second_peek(second)))
  /\ prev' = call
  /\ borrow' = None /\ iter_mut' = None
  /\ UNCHANGED <<thirdVars, first, hist, second, shadow, into_iter, iters>>

PeekMut ==
  /\ Live
  /\ second' = second_peek_mut(second).self
  /\ call' = Call("peek_mut", None, Seen(second, second_peek_mut(second).ret))
  /\ prev' = call
  /\ borrow' = second_peek_mut(second).ret
  /\ iters' = NoIters /\ iter_mut' = None
  /\ UNCHANGED <<thirdVars, first, hist, shadow, into_iter>>

\* *value = v through the view peek_mut returned.
WriteView(v) ==
  /\ Live /\ borrow # None
  /\ second' = deref_write(second, borrow[1], v)
  /\ shadow' = <<v>> \o Tail(shadow)
  /\ call' = Call("write", Some(v), None)
  /\ prev' = call
  /\ UNCHANGED <<thirdVars, first, hist, borrow, into_iter, iters, iter_mut>>

IntoIter ==
  /\ Live
  /\ into_iter' = Some([it |-> second_into_iter(second), out |-> <<>>,
                        from |-> Contents(second),
                        pops |-> PopAll(second, Cardinality(DOMAIN second.heap))])
  /\ second' = Moved
  /\ call' = Call("into_iter", None, None)
  /\ prev' = call
  /\ borrow' = None /\ iters' = NoIters /\ iter_mut' = None
  /\ UNCHANGED <<thirdVars, first, hist, shadow>>

IntoIterNext ==
  /\ into_iter # None /\ ~Done2(into_iter[1].out)
  /\ LET r == IntoIter_next(into_iter[1].it)
     IN /\ into_iter' = Some([into_iter[1] EXCEPT !.it = r.self, !.out = Append(@, r.ret)])
        /\ call' = Call("into_next", None, r.ret)
        /\ prev' = call
  /\ shadow' = IF shadow = <<>> THEN <<>> ELSE Tail(shadow)
  /\ UNCHANGED <<thirdVars, first, hist, second, borrow, iters, iter_mut>>

MakeIter(i) ==
  /\ Live
  /\ iters' = [iters EXCEPT ![i] = Some([it |-> second_iter(second), out |-> <<>>])]
  /\ call' = Call("iter", Some(i), None)
  /\ prev' = call
  /\ borrow' = None /\ iter_mut' = None
  /\ UNCHANGED <<thirdVars, first, hist, second, shadow, into_iter>>

IterNext(i) ==
  /\ Live /\ iters[i] # None /\ ~Done2(iters[i][1].out)
  /\ LET r == Iter_next(second.heap, iters[i][1].it)
     IN /\ iters' = [iters EXCEPT ![i] = Some([it |-> r.self,
                                               out |-> Append(iters[i][1].out, Seen(second, r.ret))])]
        /\ call' = Call("iter_next", Some(i), Seen(second, r.ret))
        /\ prev' = call
  /\ UNCHANGED <<thirdVars, first, hist, second, shadow, borrow, into_iter, iter_mut>>

MakeIterMut ==
  /\ Live
  /\ iter_mut' = Some([it |-> second_iter_mut(second), out |-> <<>>, views |-> <<>>])
  /\ call' = Call("iter_mut", None, None)
  /\ prev' = call
  /\ borrow' = None /\ iters' = NoIters
  /\ UNCHANGED <<thirdVars, first, hist, second, shadow, into_iter>>

IterMutNext ==
  /\ Live /\ iter_mut # None /\ ~Done2(iter_mut[1].out)
  /\ LET r == IterMut_next(second.heap, iter_mut[1].it)
     IN /\ iter_mut' = Some([it |-> r.self,
                             out |-> Append(iter_mut[1].out, Seen(second, r.ret)),
                             views |-> iter_mut[1].views \o r.ret])
        /\ call' = Call("iter_mut_next", None, Seen(second, r.ret))
        /\ prev' = call
        /\ second' = [second EXCEPT !.heap = r.heap]
  /\ UNCHANGED <<thirdVars, first, hist, shadow, borrow, into_iter, iters>>

\* *view = v through the k-th view the IterMut has returned; `out` is what the
\* returned views show after the write.
WriteIterView(k, v) ==
  /\ Live /\ iter_mut # None /\ k \in 1..Len(iter_mut[1].views)
  /\ second' = deref_write(second, iter_mut[1].views[k], v)
  /\ shadow' = [shadow EXCEPT ![k] = v]
  /\ iter_mut' = Some([iter_mut[1] EXCEPT
                         !.out = [j \in 1..Len(@) |->
                                    IF j <= Len(iter_mut[1].views)
                                    THEN Some(deref(second', iter_mut[1].views[j]))
                                    ELSE @[j]]])
  /\ call' = Call("write_view", Some(k), Some(v))
  /\ prev' = call
  /\ UNCHANGED <<thirdVars, first, hist, borrow, into_iter, iters>>

NextBorrow ==
  \/ NewList
  \/ \E e \in Val : ListPush(e)
  \/ ListPop
  \/ Peek
  \/ PeekMut
  \/ \E v \in Val : WriteView(v)
  \/ IntoIter
  \/ IntoIterNext
  \/ \E i \in IterIds : MakeIter(i)
  \/ \E i \in IterIds : IterNext(i)
  \/ MakeIterMut
  \/ IterMutNext
  \/ \E k \in 1..MaxNodes, v \in Val : WriteIterView(k, v)

SpecBorrow == Init /\ [][NextBorrow]_vars


\* ------------------------------ persistent-list harness (third.rs tests)
\* The harness holds a bag of List values: prepend and tail add the List they
\* return, and a List leaves the bag when it goes out of scope and is dropped.
otherVars == <<first, second, hist, shadow, prev, borrow, into_iter, iters, iter_mut>>
NumLists == BagCardinality(lists)
One(x) == SetToBag({x})

\* What a teardown did, read off the heap before and after it: the cells it
\* released, and the cells it left allocated with fewer shares.
Released(heap, heap2) == {n \in NodeIds : heap[n].alloc /\ ~heap2[n].alloc}
Decremented(heap, heap2) ==
  {n \in NodeIds : heap[n].alloc /\ heap2[n].alloc /\ heap2[n].strong < heap[n].strong}

ThirdNew ==
  /\ NumLists < MaxLists
  /\ lists' = lists (+) One(third_new)
  /\ call' = Call("third", None, None)
  /\ UNCHANGED <<rc_heap, otherVars>>

\* The list never looks into its elements, so the harness brings new values
\* in by order: an element is one of those in the heap or the next one up.
Prepend(self, e) ==
  /\ BagIn(self, lists) /\ NumLists < MaxLists /\ HasFree(rc_heap)
  /\ \A v \in 1..(e - 1) : \E n \in NodeIds : rc_heap[n].alloc /\ rc_heap[n].elem = v
  /\ LET r == third_prepend(rc_heap, self, e)
     IN rc_heap' = r.heap /\ lists' = lists (+) One(r.ret)
  /\ call' = Call("third", None, None)
  /\ UNCHANGED otherVars

TailOf(self) ==
  /\ BagIn(self, lists) /\ NumLists < MaxLists
  /\ LET r == third_tail(rc_heap, self)
     IN rc_heap' = r.heap /\ lists' = lists (+) One(r.ret)
  /\ call' = Call("third", None, None)
  /\ UNCHANGED otherVars

\* The List `self` goes out of scope: Drop::drop runs on it.
DropList(self) ==
  /\ BagIn(self, lists)
  /\ rc_heap' = third_drop(rc_heap, self)
  /\ lists' = lists (-) One(self)
  /\ call' = Call("drop", Some(Cardinality(Released(rc_heap, rc_heap'))),
                   LET d == Decremented(rc_heap, rc_heap')
                   IN IF d = {} THEN None ELSE Some(CHOOSE n \in d : TRUE))
  /\ UNCHANGED otherVars

NextShared ==
  \/ ThirdNew
  \/ \E self \in BagToSet(lists), e \in Val : Prepend(self, e)
  \/ \E self \in BagToSet(lists) : TailOf(self)
  \/ \E self \in BagToSet(lists) : DropList(self)

SpecShared == Init /\ [][NextShared]_vars

\* ------------------------------------------------- reading the harness log
Last(s) == s[Len(s)]
PushStep == Len(hist') = Len(hist) + 1 /\ Last(hist').op = "push"
PopStep == Len(hist') = Len(hist) + 1 /\ Last(hist').op = "pop"

\* h is n pushes followed only by pops, at most n + 1 of them.
PushesThenPops(h, n) ==
  /\ n <= Len(h) /\ Len(h) <= 2 * n + 1
  /\ \A i \in 1..Len(h) : h[i].op = (IF i <= n THEN "push" ELSE "pop")

\* The abstract stack (top first) after the first k calls of h.
RECURSIVE AbsStack(_, _)
AbsStack(h, k) ==
  IF k = 0 THEN <<>>
  ELSE LET s == AbsStack(h, k - 1)
       IN IF h[k].op = "push" THEN h[k].arg \o s
          ELSE IF s = <<>> THEN <<>> ELSE Tail(s)
AbsTop(s) == IF s = <<>> THEN None ELSE Some(Head(s))

\* C1: after n pushes on a new list, the i-th of the following pops returns
\* the (n-i+1)-th pushed element, and the (n+1)-th pop returns None, on the
\* ExclusiveList and on the GenericBorrowList.
C1_LifoOrder ==
  \A n \in 0..Len(hist) :
    PushesThenPops(hist, n) =>
      \A i \in 1..(Len(hist) - n) :
        LET want == IF i <= n THEN hist[n - i + 1].arg ELSE None
        IN hist[n + i].first = want /\ hist[n + i].second = want

C1_Witness ==
  /\ Len(hist) = 5 /\ PushesThenPops(hist, 2)
  /\ hist[1].arg # hist[2].arg
  /\ hist[5].first = None /\ hist[5].second = None

\* C2: a pop on an empty list returns None and leaves the list as new() made
\* it, so the pops that follow return None too; a push made right after such
\* a pop leaves exactly the pushed element, as a push on a new list does.
C2_PopEmpty ==
  [][ /\ (PopStep /\ first.head = Empty) =>
           (Last(hist').first = None /\ first' = first_new)
      /\ (PopStep /\ second.head = None) =>
           (Last(hist').second = None /\ second' = second_new)
      /\ (PushStep /\ hist # <<>> /\ Last(hist).op = "pop" /\ Last(hist).first = None) =>
           Contents(first') = Last(hist').arg
      /\ (PushStep /\ hist # <<>> /\ Last(hist).op = "pop" /\ Last(hist).second = None) =>
           Contents(second') = Last(hist').arg
    ]_vars

\* Two pops on the emptied list, both None, and then a push.
C2_Witness ==
  /\ Len(hist) = 5
  /\ hist[1].op = "push" /\ hist[2].op = "pop"
  /\ hist[3].op = "pop" /\ hist[3].first = None /\ hist[3].second = None
  /\ hist[4].op = "pop" /\ hist[4].first = None /\ hist[4].second = None
  /\ hist[5].op = "push" /\ Contents(first) = hist[5].arg /\ Contents(second) = hist[5].arg

\* C3: under any interleaving of pushes and pops both lists hold, front to
\* back, what the abstract stack holds after the same calls, and every pop
\* returned the abstract stack's top (None when it was empty).
C3_RefinesStack ==
  /\ Contents(first) = AbsStack(hist, Len(hist))
  /\ Contents(second) = AbsStack(hist, Len(hist))
  /\ \A i \in 1..Len(hist) :
       hist[i].op = "pop" =>
         /\ hist[i].first = AbsTop(AbsStack(hist, i - 1))
         /\ hist[i].second = AbsTop(AbsStack(hist, i - 1))

\* A push made after a pop, onto an element that was still in the list.
C3_Witness ==
  /\ Len(hist) = 4
  /\ hist[1].op = "push" /\ hist[2].op = "push" /\ hist[3].op = "pop" /\ hist[4].op = "push"
  /\ hist[1].arg # hist[4].arg
  /\ Contents(first) = hist[4].arg \o hist[1].arg
  /\ Contents(second) = hist[4].arg \o hist[1].arg

\* --------------------------------------------- reading the borrow harness
\* out is what an iterator over src returns: src's elements in order, each
\* once, and None from then on.
Yields(out, src) ==
  /\ Len(out) <= Len(src) + 2
  /\ \A k \in 1..Len(out) : out[k] = (IF k <= Len(src) THEN Some(src[k]) ELSE None)

\* What into_iter() on the list would return, call after call.
WouldPop(self) == PopAll(self, Cardinality(DOMAIN self.heap))

\* C4: peek and peek_mut return None on an empty list and otherwise a view
\* of the most recently pushed element still in the list; neither changes
\* the list, and a pop made right after returns the value the view showed.
C4_PeekFrame ==
  [][ /\ (Peek \/ PeekMut) =>
           /\ call'.ret = AbsTop(shadow)
           /\ second' = second
           /\ Contents(second') = shadow
      /\ PeekMut => borrow' = second.head
      /\ (call.op \in {"peek", "peek_mut"} /\ ListPop) =>
           /\ call'.ret = call.ret
           /\ Len(Contents(second')) = Len(Contents(second)) - (IF call.ret = None THEN 0 ELSE 1)
    ]_vars

\* A pop right after a peek_mut right after a peek, on a list of two.
C4_Witness ==
  /\ prev.op = "peek_mut" /\ prev.ret = Some(2)
  /\ call.op = "pop" /\ call.ret = Some(2)
  /\ Live /\ Contents(second) = <<1>>

\* C5: writing v through the view peek_mut returned replaces the front
\* element and nothing else: the elements behind it and the length stay, a
\* peek made next reports v and a pop made next returns v.
C5_WriteThrough ==
  [][ /\ (\E v \in Val : WriteView(v)) =>
           /\ Contents(second') = call'.arg \o Tail(Contents(second))
           /\ second'.head = second.head
           /\ \A n \in NodeIds : n # borrow[1] => second'.heap[n] = second.heap[n]
      /\ (call.op = "write" /\ Peek) => call'.ret = call.arg
      /\ (call.op = "write" /\ ListPop) =>
           (call'.ret = call.arg /\ Contents(second') = Tail(Contents(second)))
    ]_vars

\* peek_mut showed 2, 1 was written over it, and the pop returned 1, leaving
\* the element behind the front in place.
C5_Witness ==
  /\ prev.op = "write" /\ prev.arg = Some(1)
  /\ call.op = "pop" /\ call.ret = Some(1)
  /\ Live /\ Contents(second) = <<2>>

\* C6: into_iter() takes the list, and the next() calls on it return the
\* list's elements front to back (the results repeated pops would give),
\* each once, and then None.
C6_IntoIter ==
  into_iter # None =>
    LET i == into_iter[1]
        got == {k \in 1..Len(i.out) : i.out[k] # None}
    IN /\ second = Moved
       /\ i.pops = i.from
       /\ Yields(i.out, i.from)
       /\ Contents(i.it.list) = SubSeq(i.from, Cardinality(got) + 1, Len(i.from))

\* push(1), push(2), push(3), into_iter(): 3, 2, 1, None.
C6_Witness ==
  /\ into_iter # None
  /\ into_iter[1].from = <<3, 2, 1>>
  /\ into_iter[1].out = <<Some(3), Some(2), Some(1), None>>

\* C7: iter() and iter_mut() return what into_iter() on the same list would
\* return, in the same order, each element once and then None, and neither
\* making nor advancing them changes the list.
C7_IterOrder ==
  /\ [](\A i \in IterIds : iters[i] # None => Yields(iters[i][1].out, WouldPop(second)))
  /\ [](iter_mut # None => Yields(iter_mut[1].out, WouldPop(second)))
  /\ [][ (\/ MakeIterMut \/ IterMutNext
          \/ \E i \in IterIds : MakeIter(i) \/ IterNext(i)) => second' = second ]_vars

\* An Iter run to the end of a three-element list.
C7_Witness ==
  /\ Live /\ Contents(second) = <<3, 2, 1>>
  /\ iters[1] # None /\ iters[1][1].out = <<Some(3), Some(2), Some(1), None>>

\* ------------------------------------- reading the persistent-list harness
\* The node ids met by following next links from `link`, allocated or not.
RECURSIVE Chain(_, _, _)
Chain(heap, link, fuel) ==
  IF link = None \/ fuel = 0 THEN <<>>
  ELSE <<link[1]>> \o Chain(heap, heap[link[1]].next, fuel - 1)

Reach(heap, self) ==
  LET ch == Chain(heap, self.head, MaxNodes + 1)
  IN {ch[j] : j \in 1..Len(ch)}

\* The elements an Iter returns when it is run until None.
RECURSIVE IterRun(_, _, _)
IterRun(heap, it, fuel) ==
  LET r == third_Iter_next(heap, it)
  IN IF r.ret = None \/ fuel = 0 THEN <<>>
     ELSE <<heap[r.ret[1]].elem>> \o IterRun(heap, r.self, fuel - 1)

\* What a caller can read from a List: through head(), through iter(), and
\* through iter() on the List that tail() returns.
Visible(heap, self) ==
  LET fuel == MaxNodes + 1
      v == third_head(self)
      t == third_tail(heap, self)
  IN [head |-> IF v = None THEN None ELSE Some(heap[v[1]].elem),
      iter |-> IterRun(heap, third_iter(self), fuel),
      tail |-> IterRun(t.heap, third_iter(t.ret), fuel)]

\* C8: no prepend, tail or teardown changes what can be read from a List
\* that is alive before and after it.
C8_Persistent ==
  [][ \A self \in BagToSet(lists) :
        BagIn(self, lists') => Visible(rc_heap', self) = Visible(rc_heap, self) ]_vars

\* base, a = base.prepend(x) and b = base.prepend(y) were alive, b has just
\* been destroyed: its own node is gone, a and base read as before.
C8_Witness ==
  /\ call.op = "drop" /\ call.arg = Some(1)
  /\ \E a, base \in BagToSet(lists) :
       /\ a.head # None /\ base.head # None /\ call.ret = base.head
       /\ rc_heap[a.head[1]].next = base.head
       /\ rc_heap[base.head[1]].strong = 2
       /\ Visible(rc_heap, a).iter = <<rc_heap[a.head[1]].elem>> \o Visible(rc_heap, base).iter
       /\ Visible(rc_heap, a).tail = Visible(rc_heap, base).iter

\* C9: every node that a live List reaches is allocated and holds a share,
\* and a cell is released only by the step that takes its last share, when
\* no List alive after the step could reach it.
C9_NoDangling ==
  /\ [](\A self \in BagToSet(lists) :
          \A n \in Reach(rc_heap, self) : rc_heap[n].alloc /\ rc_heap[n].strong >= 1)
  /\ [][ \A n \in NodeIds :
           (rc_heap[n].alloc /\ ~rc_heap'[n].alloc) =>
             /\ rc_heap[n].strong = 1 /\ rc_heap'[n].strong = 0
             /\ \A self \in BagToSet(lists') : n \notin Reach(rc_heap, self) ]_vars

\* A teardown released two nodes and a live List still reads the third.
C9_Witness ==
  /\ call.op = "drop" /\ call.arg = Some(2) /\ call.ret # None
  /\ \E self \in BagToSet(lists) :
       /\ self.head = call.ret
       /\ rc_heap[self.head[1]].alloc
       /\ Visible(rc_heap, self).head = Some(rc_heap[self.head[1]].elem)

\* C10: a teardown releases the nodes of the chain that held one share, up
\* to the first node with more; that node loses one share and is otherwise as
\* it was, and every cell after it, and every cell off the chain, is as it was.
C10_TeardownFrame ==
  [][ \A self \in BagToSet(lists) :
        DropList(self) =>
          LET ch == Chain(rc_heap, self.head, MaxNodes + 1)
              shared == {j \in 1..Len(ch) : rc_heap[ch[j]].strong > 1}
              k == IF shared = {} THEN Len(ch) + 1 ELSE MinOf(shared)
          IN /\ \A j \in 1..Len(ch) :
                  rc_heap'[ch[j]] =
                    (IF j < k THEN FreeRc
                     ELSE IF j = k THEN [rc_heap[ch[j]] EXCEPT !.strong = @ - 1]
                     ELSE rc_heap[ch[j]])
             /\ \A n \in NodeIds :
                  (\A j \in 1..Len(ch) : ch[j] # n) => rc_heap'[n] = rc_heap[n] ]_vars

\* A teardown released the head node and stopped at a shared node that has
\* a node behind it.
C10_Witness ==
  /\ call.op = "drop" /\ call.arg = Some(1) /\ call.ret # None
  /\ rc_heap[call.ret[1]].alloc /\ rc_heap[call.ret[1]].strong >= 1
  /\ rc_heap[call.ret[1]].next # None
  /\ rc_heap[rc_heap[call.ret[1]].next[1]].alloc


\* ------------------------------------------------ C11: tail() and head()
\* The List reached from `self` by k successive tail() calls, with the heap
\* after them.
RECURSIVE TailN(_, _, _)
TailN(heap, self, k) ==
  IF k = 0 THEN [heap |-> heap, ret |-> self]
  ELSE LET r == TailN(heap, self, k - 1)
       IN third_tail(r.heap, r.ret)

\* What head() shows the caller: the element behind the returned reference.
HeadElem(heap, self) ==
  LET v == third_head(self)
  IN IF v = None THEN None ELSE Some(heap[v[1]].elem)

\* C11: tail() of a List reads as the List without its first element, and as
\* the empty List when there are fewer than two elements; so head() after k
\* tail() calls is the (k+1)-th element, and None from the length on.
C11_TailDropsFirst ==
  \A self \in BagToSet(lists) :
    LET s == IterRun(rc_heap, third_iter(self), MaxNodes + 1)
        t == third_tail(rc_heap, self)
    IN /\ IterRun(t.heap, third_iter(t.ret), MaxNodes + 1) =
            (IF s = <<>> THEN <<>> ELSE Tail(s))
       /\ Len(s) <= 1 => t.ret = third_new
       /\ \A k \in 0..(MaxNodes + 1) :
            LET r == TailN(rc_heap, self, k)
            IN HeadElem(r.heap, r.ret) = (IF k < Len(s) THEN Some(s[k + 1]) ELSE None)

\* The List new().prepend(1).prepend(2).prepend(3) is alive next to the List
\* its tail() returned; head() after 0..4 tail() calls is 3, 2, 1, None, None.
C11_Witness ==
  \E self, t \in BagToSet(lists) :
    /\ IterRun(rc_heap, third_iter(self), MaxNodes + 1) = <<3, 2, 1>>
    /\ t = third_tail(rc_heap, self).ret
    /\ rc_heap[t.head[1]].strong = 2
    /\ [k \in 0..4 |-> LET r == TailN(rc_heap, self, k) IN HeadElem(r.heap, r.ret)]
         = [k \in 0..4 |-> IF k = 0 THEN Some(3) ELSE IF k = 1 THEN Some(2)
                           ELSE IF k = 2 THEN Some(1) ELSE None]


\* ------------------------------------------- C12: prepend, head and tail
\* C12: for a List L and an element e, L.prepend(e).head() is e, and
\* L.prepend(e).tail() reads as L does and starts at the very node L starts
\* at: prepend took one cell for e and copied no node of L.
C12_PrependThenTail ==
  \A self \in BagToSet(lists) : \A e \in Val :
    HasFree(rc_heap) =>
      LET p == third_prepend(rc_heap, self, e)
          t == third_tail(p.heap, p.ret)
      IN /\ HeadElem(p.heap, p.ret) = Some(e)
         /\ t.ret.head = self.head
         /\ IterRun(t.heap, third_iter(t.ret), MaxNodes + 1)
              = IterRun(rc_heap, third_iter(self), MaxNodes + 1)
         /\ IterRun(p.heap, third_iter(self), MaxNodes + 1)
              = IterRun(rc_heap, third_iter(self), MaxNodes + 1)
         /\ Cardinality(FreeIds(p.heap)) = Cardinality(FreeIds(rc_heap)) - 1

\* A non-empty List L, L.prepend(e) and the tail() of that are alive together:
\* the node L starts at has three shares, and is where the tail() starts.
C12_Witness ==
  \E L, P, T \in BagToSet(lists) :
    /\ L.head # None /\ P.head # None /\ P.head # L.head
    /\ rc_heap[P.head[1]].next = L.head
    /\ T = third_tail(rc_heap, P).ret /\ T.head = L.head
    /\ BagCardinality(lists) = 3 /\ CopiesIn(L, lists) = 2
    /\ rc_heap[L.head[1]].strong = 3
    /\ rc_heap[L.head[1]].next # None


\* ------------------------------------- C13: teardown of the owning lists
\* The cells of a heap that hold a node.
Allocated(heap) == {n \in NodeIds : heap[n].alloc}

\* A teardown log releases exactly the cells of `nodes`, each once, each by a
\* drop glue at depth one that found the node's next link vacant.
FlatRelease(log, nodes, vacant) ==
  /\ {log[i].node : i \in 1..Len(log)} = nodes
  /\ Len(log) = Cardinality(nodes)
  /\ \A i \in 1..Len(log) : log[i].depth = 1 /\ log[i].next = vacant

\* C13: the teardown of an ExclusiveList and of a GenericBorrowList runs to
\* its end, leaves no cell allocated, releases every node of the list exactly
\* once, and releases a node only when its next link is vacant, so that no
\* release starts another one.
C13_FlatTeardown ==
  [][ DropLists =>
        /\ FlatRelease(first_drop(first).log, Allocated(first.heap), Empty)
        /\ FlatRelease(second_drop(second).log, Allocated(second.heap), None)
        /\ first' = first_new /\ second' = second_new ]_vars

\* Both lists held MaxNodes nodes when they were destroyed.
C13_Witness ==
  /\ call.op = "drop" /\ call.arg = Some(MaxNodes) /\ call.ret = Some(MaxNodes)
  /\ first = first_new /\ second = second_new


\* --------------------------------------------- C14: ownership is a path
\* The slots that own the node in cell n: the head slot and the next slots
\* of the allocated nodes.
Owners(list, n) ==
  (IF list.head = Some(n) THEN {"head"} ELSE {})
    \cup {m \in Allocated(list.heap) : list.heap[m].next = Some(n)}

\* Every node has one owner, and the links from head run through every node
\* once and end at the vacant marker.
SimplePath(list) ==
  LET ch == Chain(list.heap, list.head, MaxNodes + 1)
  IN /\ \A n \in Allocated(list.heap) : Cardinality(Owners(list, n)) = 1
     /\ \A n \in NodeIds \ Allocated(list.heap) : Owners(list, n) = {}
     /\ Len(ch) <= MaxNodes
     /\ \A i, j \in 1..Len(ch) : ch[i] = ch[j] => i = j
     /\ {ch[i] : i \in 1..Len(ch)} = Allocated(list.heap)

\* C14: in every state reached by new, push, pop, peek, peek_mut and the
\* iterators, each node of the ExclusiveList and of the GenericBorrowList is
\* owned by exactly one slot, and the next links from head visit each node at
\* most once and reach the vacant marker.
C14_SimplePath ==
  SimplePath(first) /\ SimplePath(second)

\* Both lists hold MaxNodes nodes again after a pop and a push.
C14_Witness ==
  /\ Len(hist) >= MaxNodes + 2 /\ hist[Len(hist)].op = "push" /\ hist[Len(hist) - 1].op = "pop"
  /\ Len(Chain(first.heap, first.head, MaxNodes + 1)) = MaxNodes
  /\ Len(Chain(second.heap, second.head, MaxNodes + 1)) = MaxNodes


\* ------------------------------- C15: the two owning lists side by side
\* C15: run on the same new, push and pop calls, the ExclusiveList and the
\* GenericBorrowList return the same from every pop and hold the same
\* elements, front to back, after every call.
C15_SameBehaviour ==
  /\ Contents(first) = Contents(second)
  /\ (first.head = Empty) <=> (second.head = None)
  /\ \A i \in 1..Len(hist) : hist[i].first = hist[i].second

\* A run with a pop that returned an element, a pop that returned None and
\* pushes after them, ending with two elements in both lists.
C15_Witness ==
  /\ Len(hist) = 5
  /\ hist[1].op = "push" /\ hist[2].op = "pop" /\ hist[2].second # None
  /\ hist[3].op = "pop" /\ hist[3].first = None
  /\ hist[4].op = "push" /\ hist[5].op = "push" /\ hist[4].arg # hist[5].arg
  /\ Contents(first) = hist[5].arg \o hist[4].arg
  /\ Contents(second) = hist[5].arg \o hist[4].arg


\* ------------------------------------------ C16: several Iter on one list
\* The elements an Iter still returns when it is run until None.
RECURSIVE Iter_run(_, _, _)
Iter_run(heap, it, fuel) ==
  LET r == Iter_next(heap, it)
  IN IF r.ret = None \/ fuel = 0 THEN <<>>
     ELSE <<heap[r.ret[1]].elem>> \o Iter_run(heap, r.self, fuel - 1)

\* The elements among the results of next() calls.
Got(out) ==
  LET some == SelectSeq(out, LAMBDA r : r # None)
  IN [k \in 1..Len(some) |-> some[k][1]]

\* C16: every iter() call gives an Iter that returns the whole list from the
\* front, whatever other Iter values are alive; each live Iter has returned a
\* prefix of the list and still returns the rest, wherever the others stand;
\* and a next() call on one Iter moves no other Iter and changes no element.
C16_IndependentIters ==
  /\ [](\A i \in IterIds :
          iters[i] # None =>
            /\ Got(iters[i][1].out)
                 \o Iter_run(second.heap, iters[i][1].it, MaxNodes + 1) = Contents(second)
            /\ (\E k \in 1..Len(iters[i][1].out) : iters[i][1].out[k] = None)
                 => Got(iters[i][1].out) = Contents(second))
  /\ [][ \A i \in IterIds :
           /\ MakeIter(i) =>
                /\ iters'[i][1].out = <<>>
                /\ Iter_run(second'.heap, iters'[i][1].it, MaxNodes + 1) = Contents(second)
           /\ (MakeIter(i) \/ IterNext(i)) =>
                /\ second' = second
                /\ \A j \in IterIds \ {i} : iters'[j] = iters[j] ]_vars

\* One Iter has been run to the end of a three-element list, and a second
\* one, made after that, has returned the first element.
C16_Witness ==
  /\ Live /\ Contents(second) = <<3, 2, 1>>
  /\ iters[1] # None /\ iters[1][1].out = <<Some(3), Some(2), Some(1), None>>
  /\ iters[2] # None /\ iters[2][1].out = <<Some(3)>>
  /\ call = Call("iter_next", Some(2), Some(3))
  /\ prev = Call("iter", Some(2), None)


\* --------------------------------------- C17: writing through iter_mut()
\* C17: the k-th view an IterMut returns is a view of the k-th node of the
\* list, so no two returned views are views of one element; a value written
\* through the k-th view is the k-th element afterwards, as pop and iter
\* report it, and the length, the links and every other element are as they
\* were.
C17_WriteInPlace ==
  /\ [](iter_mut # None =>
          LET vs == iter_mut[1].views
              ch == Chain(second.heap, second.head, MaxNodes + 1)
          IN /\ Len(vs) <= Len(ch)
             /\ \A k \in 1..Len(vs) : vs[k] = ch[k]
             /\ \A j, k \in 1..Len(vs) : vs[j] = vs[k] => j = k)
  /\ [][ \A k \in 1..MaxNodes : \A v \in Val :
           WriteIterView(k, v) =>
             LET was == Contents(second)
                 now == [j \in 1..Len(was) |-> IF j = k THEN v ELSE was[j]]
             IN /\ Contents(second') = now
                /\ Iter_run(second'.heap, second_iter(second'), MaxNodes + 1) = now
                /\ WouldPop(second') = now
                /\ second'.head = second.head
                /\ \A n \in NodeIds :
                     /\ second'.heap[n].next = second.heap[n].next
                     /\ second'.heap[n].alloc = second.heap[n].alloc ]_vars

\* The IterMut has returned views of all three elements of 3, 2, 1, and 3
\* has just been written through the second of them.
C17_Witness ==
  /\ Live /\ iter_mut # None /\ Len(iter_mut[1].views) = 3
  /\ prev = Call("iter_mut_next", None, Some(1))
  /\ call = Call("write_view", Some(2), Some(3))
  /\ Contents(second) = <<3, 3, 1>>


\* ------------------------------------ C18: share counts of prepend, tail
\* C18: prepend(e) on a List takes one free cell for a node with one share
\* and gives the List's head node, if there is one, one share more; tail()
\* gives the List's second node, if there is one, one share more and takes no
\* cell; every other cell is as it was. head() hands out a reference and
\* works on no share count.
C18_ShareCounts ==
  \A self \in BagToSet(lists) :
    /\ \A e \in Val :
         HasFree(rc_heap) =>
           LET p == third_prepend(rc_heap, self, e)
               new == p.ret.head[1]
           IN /\ ~rc_heap[new].alloc
              /\ p.heap[new] = [elem |-> e, next |-> self.head, strong |-> 1, alloc |-> TRUE]
              /\ \A n \in NodeIds \ {new} :
                   p.heap[n] = (IF self.head = Some(n)
                                THEN [rc_heap[n] EXCEPT !.strong = @ + 1] ELSE rc_heap[n])
    /\ LET t == third_tail(rc_heap, self)
           snd == IF self.head = None THEN None ELSE rc_heap[self.head[1]].next
       IN \A n \in NodeIds :
            t.heap[n] = (IF snd = Some(n)
                         THEN [rc_heap[n] EXCEPT !.strong = @ + 1] ELSE rc_heap[n])
    /\ third_head(self) = self.head

\* A List B of two nodes is alive with B.tail() and B.prepend(e): B's first
\* and second node have two shares each, the prepended node has one.
C18_Witness ==
  \E B, T, P \in BagToSet(lists) :
    /\ B.head # None /\ T.head # None /\ P.head # None
    /\ rc_heap[B.head[1]].next = T.head
    /\ rc_heap[P.head[1]].next = B.head
    /\ rc_heap[B.head[1]].strong = 2
    /\ rc_heap[T.head[1]].strong = 2
    /\ rc_heap[P.head[1]].strong = 1


\* ------------------------------------------- C19: what a share count counts
\* The handles on the node in cell n: the head slots of the List values alive
\* and the next slots of the allocated nodes.
Handles(n) ==
  CopiesIn([head |-> Some(n)], lists)
    + Cardinality({m \in NodeIds : rc_heap[m].alloc /\ rc_heap[m].next = Some(n)})

\* C19: between the calls, the share count of every allocated node is the
\* number of head slots and next slots that hold a handle on it, and is at
\* least one; a free cell has no handle on it.
C19_CountIsHandles ==
  \A n \in NodeIds :
    IF rc_heap[n].alloc
    THEN rc_heap[n].strong = Handles(n) /\ rc_heap[n].strong >= 1
    ELSE Handles(n) = 0 /\ rc_heap[n] = FreeRc

\* After a teardown that stopped at a shared node m: m is left with the one
\* share of a List, and the node behind it is held by m's next slot and by a
\* List of its own, two shares in all.
C19_Witness ==
  /\ call.op = "drop" /\ call.ret # None
  /\ \E n, m \in NodeIds :
       /\ n # m /\ rc_heap[n].alloc /\ rc_heap[m].alloc
       /\ call.ret = Some(m)
       /\ rc_heap[m].next = Some(n)
       /\ CopiesIn([head |-> Some(m)], lists) = 1 /\ rc_heap[m].strong = 1
       /\ CopiesIn([head |-> Some(n)], lists) = 1 /\ rc_heap[n].strong = 2


\* ------------------------------------------------ C20: no node is leaked
\* The cells of the Rc heap that hold a node.
RcAllocated(heap) == {n \in NodeIds : heap[n].alloc}

\* C20: when the last List has been destroyed, whatever the order of the
\* teardowns, no node is left allocated; and a teardown allocates nothing and
\* works on no cell that is already free, so no node is released twice.
C20_NoLeak ==
  /\ [](lists = EmptyBag => rc_heap = EmptyRcHeap)
  /\ [][ \A self \in BagToSet(lists) :
           DropList(self) =>
             /\ RcAllocated(rc_heap') \subseteq RcAllocated(rc_heap)
             /\ \A n \in NodeIds \ RcAllocated(rc_heap) : rc_heap'[n] = rc_heap[n]
             /\ Cardinality(RcAllocated(rc_heap'))
                  = Cardinality(RcAllocated(rc_heap)) - call'.arg[1] ]_vars

\* The last List alive has been destroyed, its teardown released the last two
\* nodes, and every cell is free.
C20_Witness ==
  /\ call.op = "drop" /\ call.arg = Some(2) /\ call.ret = None
  /\ lists = EmptyBag
  /\ rc_heap = EmptyRcHeap


\* ----------------------------------------- C21: iter() on the shared list
\* n next() calls on an Iter: what they returned, and the Iter and the heap
\* after them.
RECURSIVE third_Iter_calls(_, _, _)
third_Iter_calls(heap, it, n) ==
  IF n = 0 THEN [it |-> it, heap |-> heap, out |-> <<>>]
  ELSE LET r == third_Iter_next(heap, it)
           rest == third_Iter_calls(r.heap, r.self, n - 1)
       IN [it |-> rest.it, heap |-> rest.heap,
           out |-> <<IF r.ret = None THEN None ELSE Some(r.heap[r.ret[1]].elem)>> \o rest.out]

\* C21: the next() calls on the Iter of a List return the elements of the
\* nodes on the List's chain, front to back, and None after the last; and
\* however far the Iter is run, every cell, share counts included, is as it
\* was, so every List reads as before.
C21_SharedIter ==
  \A self \in BagToSet(lists) :
    LET ch == Chain(rc_heap, self.head, MaxNodes + 1)
    IN \A n \in 0..(MaxNodes + 2) :
         LET r == third_Iter_calls(rc_heap, third_iter(self), n)
         IN /\ r.out = [k \in 1..n |-> IF k <= Len(ch) THEN Some(rc_heap[ch[k]].elem)
                                       ELSE None]
            /\ r.heap = rc_heap
            /\ r.it.next = (IF n < Len(ch) THEN Some(ch[n + 1]) ELSE None)

\* The List new().prepend(1).prepend(2).prepend(3) is alive, its second node
\* shared with another List; four next() calls return 3, 2, 1, None.
C21_Witness ==
  \E self, other \in BagToSet(lists) :
    /\ self.head # None /\ other.head = rc_heap[self.head[1]].next
    /\ other.head # None /\ rc_heap[other.head[1]].strong = 2
    /\ third_Iter_calls(rc_heap, third_iter(self), 4).out = <<Some(3), Some(2), Some(1), None>>
    /\ third_Iter_calls(rc_heap, third_iter(other), 3).out = <<Some(2), Some(1), None>>


\* ------------------------------------ C22: the iterators stay exhausted
\* C22: an IntoIter, an Iter and an IterMut over a list of n elements return
\* None from the (n+1)-th next() call on, and such a call leaves the iterator
\* and the list exactly as they were, so that every later call does the same.
C22_StaysExhausted ==
  [][ /\ IntoIterNext =>
           (Len(into_iter[1].out) >= Len(into_iter[1].from) =>
              /\ call'.ret = None
              /\ into_iter'[1].it = into_iter[1].it
              /\ second' = second)
      /\ \A i \in IterIds :
           IterNext(i) =>
             (Len(iters[i][1].out) >= Len(Contents(second)) =>
                /\ call'.ret = None
                /\ iters'[i][1].it = iters[i][1].it
                /\ second' = second)
      /\ IterMutNext =>
           (Len(iter_mut[1].out) >= Len(Contents(second)) =>
              /\ call'.ret = None
              /\ iter_mut'[1].it = iter_mut[1].it
              /\ iter_mut'[1].views = iter_mut[1].views
              /\ second' = second)
    ]_vars

\* An Iter over a list of two has been called four times: the third and the
\* fourth call returned None.
C22_Witness ==
  /\ Live /\ Len(Contents(second)) = 2
  /\ iters[2] # None /\ Len(iters[2][1].out) = 4
  /\ iters[2][1].out[3] = None /\ iters[2][1].out[4] = None
  /\ call = Call("iter_next", Some(2), None) /\ prev = Call("iter_next", Some(2), None)
  /\ iters[2][1].it = [next |-> None]

====
